---- MODULE Spec2Model ----
(***************************************************************************)
(* Model of piomatter's matrixmap.h: the orientation transforms, the       *)
(* pixel-address map builder, the bit-plane schedule generators and the    *)
(* matrix_geometry constructors.  One behaviour is one call made by a      *)
(* client: the call's arguments are drawn from bounded sets, the map       *)
(* builder's loops run one iteration per step, and the call ends in        *)
(* pc = "done" (returned) or pc = "thrown" (std::range_error propagated).  *)
(* ServerSpec models the two frame-ingest servers: the signal handler, the  *)
(* run, accept, handler and render threads, and the frame queue they share. *)
(***************************************************************************)
EXTENDS Integers, Sequences, FiniteSets, TLC

\* ---- bounds of the model ------------------------------------------------
MaxWidth == 3
MaxHeight == 8
MaxAddrLines == 2
MaxPixelsAcross == 192
MaxGeomPixels == 4
MaxGeomPlanes == 5
MaxGeomWidth == 2
MaxGeomHeight == 4
MaxMapLen == 8
MaxLanes == 2
MaxTemporal == 5
MaxClients == 2
MaxFrames == 5

\* ---- the servers' canvas ---------------------------------------------------
CanvasWidth == 192
CanvasHeight == 64

VARIABLES entry, args, pc, i, j, result, ret, err, geom

\* the ingest servers: which server runs, the shutdown flag, the frame queue
\* and its mutex, the position of each thread, the number of frames that have
\* reached the queue and the frames the render thread has taken from it
VARIABLES server, interrupt_received, frame_mutex_, frame_queue_, hpc, rpc,
          apc, mainpc, arrivals, rendered

svars == <<server, interrupt_received, frame_mutex_, frame_queue_, hpc, rpc,
           apc, mainpc, arrivals, rendered>>

gvars == <<entry, args, pc, i, j, result, ret, err, geom>>

vars == <<entry, args, pc, i, j, result, ret, err, geom, server,
          interrupt_received, frame_mutex_, frame_queue_, hpc, rpc, apc,
          mainpc, arrivals, rendered>>

Clients == 1..MaxClients

\* ---- values ---------------------------------------------------------------
NoValue == "no value"
NoGeometry == "no geometry"
NoError == ""

HeightError == "Overall height does not evenly divide calculated panel height"
PlanesError == "n_planes out of range"
TemporalError == "n_temporal_planes out of range"
MapSizeError == "map size does not match calculated pixel count"

Return(v) == [thrown |-> FALSE, value |-> v, what |-> NoError]
Throw(msg) == [thrown |-> TRUE, value |-> NoValue, what |-> msg]

\* C++ integer division and remainder truncate toward zero.
CDiv(a, b) == IF a >= 0 THEN a \div b ELSE -((-a) \div b)
CMod(a, b) == a - b * CDiv(a, b)

\* ---- orientation transforms ------------------------------------------------
orientation_normal(width, height, x, y) == x + width * y

orientation_r180(width, height, x, y) ==
    orientation_normal(width, height, width - x - 1, height - y - 1)

\* mutant: the canvas is not transposed before the normal mapping
orientation_ccw_untransposed(width, height, x, y) ==
    orientation_normal(width, height, y, width - x - 1)

orientation_ccw(width, height, x, y) ==
    orientation_normal(height, width, y, width - x - 1)

orientation_cw(width, height, x, y) ==
    orientation_normal(height, width, y - height - 1, x)

\* mutant: the bottom panel row is the one reversed
custom_panel_orientation_bottom(width, height, x, y) ==
    LET panel_x == CDiv(x, 64)
        panel_y == CDiv(y, 32)
        local_x == CMod(x, 64)
        local_y == CMod(y, 32)
        flipped_x == IF panel_y = 1 THEN 2 - panel_x ELSE panel_x
        new_x == flipped_x * 64 + local_x
        new_y == panel_y * 32 + local_y
    IN  new_x + width * new_y

custom_panel_orientation(width, height, x, y) ==
    LET panel_x == CDiv(x, 64)
        panel_y == CDiv(y, 32)
        local_x == CMod(x, 64)
        local_y == CMod(y, 32)
        flipped_x == IF panel_y = 0 THEN 2 - panel_x ELSE panel_x
        new_x == flipped_x * 64 + local_x
        new_y == panel_y * 32 + local_y
    IN  new_x + width * new_y

FixedOrientations == {"normal", "r180", "ccw", "cw"}
Orientations == FixedOrientations \cup {"custom"}

\* the callback cb(width, height, x, y) a caller passes to the map builder
Cb(cb, width, height, x, y) ==
    CASE cb = "normal" -> orientation_normal(width, height, x, y)
      [] cb = "r180"   -> orientation_r180(width, height, x, y)
      [] cb = "ccw"    -> orientation_ccw(width, height, x, y)
      [] cb = "cw"     -> orientation_cw(width, height, x, y)
      [] cb = "custom" -> custom_panel_orientation(width, height, x, y)

\* ---- make_matrixmap: derived sizes ----------------------------------------
panel_height(n_addr_lines) == 2 * 2^n_addr_lines

\* mutant: the half height computed with the full height's shift (2 << n)
half_panel_height_full(n_addr_lines) == 2 * 2^n_addr_lines

half_panel_height(n_addr_lines) == 2^n_addr_lines

v_panels(height, n_addr_lines) == height \div panel_height(n_addr_lines)

map_pixels_across(width, height, n_addr_lines) ==
    width * v_panels(height, n_addr_lines)

\* mutant: divisibility tested against the half panel height
height_rejected_half(height, n_addr_lines) ==
    height % half_panel_height(n_addr_lines) # 0

\* the range check at the head of make_matrixmap
height_rejected(height, n_addr_lines) ==
    height % panel_height(n_addr_lines) # 0

\* mutant: the mirrored column of an odd serpentine panel is one too far
pixel_pair_offbyone(width, n_addr_lines, serpentine, ii, jj) ==
    LET panel_no == jj \div width
        panel_idx == jj % width
    IN  IF serpentine /\ panel_no % 2 = 1
        THEN << width - panel_idx,
                (panel_no + 1) * panel_height(n_addr_lines) - ii - 1,
                (panel_no + 1) * panel_height(n_addr_lines) - ii
                    - half_panel_height(n_addr_lines) - 1 >>
        ELSE << panel_idx,
                panel_no * panel_height(n_addr_lines) + ii,
                panel_no * panel_height(n_addr_lines) + ii
                    + half_panel_height(n_addr_lines) >>

\* the body of the inner loop: <<x, y0, y1>> for row-select i, column j
pixel_pair(width, n_addr_lines, serpentine, ii, jj) ==
    LET panel_no == jj \div width
        panel_idx == jj % width
    IN  IF serpentine /\ panel_no % 2 = 1
        THEN << width - panel_idx - 1,
                (panel_no + 1) * panel_height(n_addr_lines) - ii - 1,
                (panel_no + 1) * panel_height(n_addr_lines) - ii
                    - half_panel_height(n_addr_lines) - 1 >>
        ELSE << panel_idx,
                panel_no * panel_height(n_addr_lines) + ii,
                panel_no * panel_height(n_addr_lines) + ii
                    + half_panel_height(n_addr_lines) >>

\* ---- schedules --------------------------------------------------------------
schedule_entry(shift, active_time) ==
    [shift |-> shift, active_time |-> active_time]

\* mutant: the scaling loop also doubles when max_count == pixels_across
RECURSIVE scale_counts_inclusive(_, _, _)
scale_counts_inclusive(max_count, temporal_count, pixels_across) ==
    IF max_count <= pixels_across
    THEN scale_counts_inclusive(2 * max_count, 2 * temporal_count,
                                pixels_across)
    ELSE <<max_count, temporal_count>>

\* while (max_count < pixels_across) { max_count <<= 1; temporal_count <<= 1; }
RECURSIVE scale_counts(_, _, _)
scale_counts(max_count, temporal_count, pixels_across) ==
    IF max_count < pixels_across
    THEN scale_counts(2 * max_count, 2 * temporal_count, pixels_across)
    ELSE <<max_count, temporal_count>>

planes_rejected(n_planes) == n_planes < 1 \/ n_planes > 10

make_simple_schedule(n_planes, pixels_across) ==
    IF planes_rejected(n_planes)
    THEN Throw(PlanesError)
    ELSE LET max_count == scale_counts(2^n_planes, 1, pixels_across)[1]
             sched == [k \in 1..n_planes |->
                          schedule_entry(10 - (k - 1),
                                         max_count \div 2^(k - 1))]
         IN  Return(<<sched>>)

\* mutant: a temporal count equal to the plane count is let through
temporal_rejected_strict(n_planes, n_temporal_planes) ==
    \/ n_temporal_planes > n_planes
    \/ (n_temporal_planes # 2 /\ n_temporal_planes # 4)

temporal_rejected(n_planes, n_temporal_planes) ==
    \/ n_temporal_planes >= n_planes
    \/ (n_temporal_planes # 2 /\ n_temporal_planes # 4)

\* mutant: the temporal plane's shift counted from 9
temporal_entry_from9(n_real_planes, temporal_count, k) ==
    schedule_entry(9 - (n_real_planes + k), temporal_count * 2^k)

\* add_sched(n_real_planes + i, temporal_count << i), for i = k - 1
temporal_entry(n_real_planes, temporal_count, k) ==
    schedule_entry(10 - (n_real_planes + k), temporal_count * 2^k)

make_temporal_dither_schedule(n_planes, pixels_across, n_temporal_planes) ==
    IF planes_rejected(n_planes) THEN Throw(PlanesError)
    ELSE IF n_temporal_planes = 0
    THEN make_simple_schedule(n_planes, pixels_across)
    ELSE IF temporal_rejected(n_planes, n_temporal_planes)
    THEN Throw(TemporalError)
    ELSE LET n_real_planes == n_planes - n_temporal_planes
             counts == scale_counts(2 * 2^n_real_planes, 1, pixels_across)
             max_count == counts[1]
             temporal_count == counts[2]
             base_sched == [k \in 1..n_real_planes |->
                               schedule_entry(10 - (k - 1),
                                              max_count \div 2^(k - 1))]
         IN  Return([k \in 1..n_temporal_planes |->
                       Append(base_sched,
                              temporal_entry(n_real_planes, temporal_count,
                                             k - 1))])

\* ---- matrix_geometry ---------------------------------------------------------
\* mutant: lanes multiplied by the address-line count, not shifted by it
pixels_down_product(n_lanes, n_addr_lines) == n_lanes * n_addr_lines

pixels_down(n_lanes, n_addr_lines) == n_lanes * 2^n_addr_lines

\* matrix_geometry(pixels_across, n_addr_lines, width, height, map, n_lanes,
\*                 schedules)
geometry_from_schedules(pixels_across, n_addr_lines, width, height, map, n_lanes, schedules) ==
    IF Len(map) # pixels_down(n_lanes, n_addr_lines) * pixels_across
    THEN Throw(MapSizeError)
    ELSE Return([pixels_across |-> pixels_across,
                 n_addr_lines |-> n_addr_lines,
                 n_lanes |-> n_lanes,
                 width |-> width,
                 height |-> height,
                 map |-> map,
                 schedules |-> schedules])

\* matrix_geometry(pixels_across, n_addr_lines, n_planes, width, height, map,
\*                 n_lanes, n_temporal_dither): the schedule generator is
\* called with (n_planes, n_temporal_dither, pixels_across), in that order.
geometry_from_map(pixels_across, n_addr_lines, n_planes, width, height, map, n_lanes, n_temporal_dither) ==
    LET s == make_temporal_dither_schedule(n_planes, n_temporal_dither,
                                           pixels_across)
    IN  IF s.thrown THEN s
        ELSE geometry_from_schedules(pixels_across, n_addr_lines, width,
                                     height, map, n_lanes, s.value)

\* ---- the calls ---------------------------------------------------------------
Init ==
    /\ entry = "none"
    /\ args = <<>>
    /\ pc = "idle"
    /\ i = 0
    /\ j = 0
    /\ result = <<>>
    /\ ret = NoValue
    /\ err = NoError
    /\ geom = NoGeometry
    /\ server = "none"
    /\ interrupt_received = FALSE
    /\ frame_mutex_ = "free"
    /\ frame_queue_ = <<>>
    /\ hpc = [c \in Clients |-> "unconnected"]
    /\ rpc = "unstarted"
    /\ apc = "unstarted"
    /\ mainpc = "start"
    /\ arrivals = 0
    /\ rendered = <<>>

\* a call that runs to completion in one step
Finish(r) ==
    /\ pc' = IF r.thrown THEN "thrown" ELSE "done"
    /\ ret' = r.value
    /\ err' = r.what

\* orientation_*(width, height, x, y) on an in-bounds coordinate
CallOrientation ==
    /\ pc = "idle"
    /\ \E cb \in Orientations, width \in 1..MaxWidth, height \in 1..MaxHeight :
         \E x \in 0..(width - 1), y \in 0..(height - 1) :
            /\ entry' = "orientation"
            /\ args' = [cb |-> cb, width |-> width, height |-> height,
                        x |-> x, y |-> y]
            /\ Finish(Return(Cb(cb, width, height, x, y)))
    /\ UNCHANGED <<i, j, result, geom>>
    /\ UNCHANGED svars

\* custom_panel_orientation(192, 64, x, y) on a coordinate of the servers'
\* canvas
CallCustomPanelOrientation ==
    /\ pc = "idle"
    /\ \E x \in 0..(CanvasWidth - 1), y \in 0..(CanvasHeight - 1) :
         /\ entry' = "custom_panel_orientation"
         /\ args' = [width |-> CanvasWidth, height |-> CanvasHeight,
                     x |-> x, y |-> y]
         /\ Finish(Return(custom_panel_orientation(CanvasWidth, CanvasHeight,
                                                   x, y)))
    /\ UNCHANGED <<i, j, result, geom>>
    /\ UNCHANGED svars

\* entry into make_matrixmap: the range check, then the loops start
EnterMatrixmap(e, a) ==
    /\ entry' = e
    /\ args' = a
    /\ i' = 0
    /\ j' = 0
    /\ result' = <<>>
    /\ IF height_rejected(a.height, a.n_addr_lines)
       THEN /\ pc' = "thrown"
            /\ err' = HeightError
       ELSE /\ pc' = "make_matrixmap"
            /\ err' = NoError
    /\ UNCHANGED <<ret, geom>>

CallMakeMatrixmap ==
    /\ pc = "idle"
    /\ \E width \in 0..MaxWidth, height \in 0..MaxHeight,
          n_addr_lines \in 0..MaxAddrLines, serpentine \in BOOLEAN,
          cb \in Orientations :
         EnterMatrixmap("make_matrixmap",
                        [width |-> width, height |-> height,
                         n_addr_lines |-> n_addr_lines,
                         serpentine |-> serpentine, cb |-> cb])
    /\ UNCHANGED svars

\* one iteration of the inner loop: two entries are pushed
MatrixmapInner ==
    /\ pc = "make_matrixmap"
    /\ i < half_panel_height(args.n_addr_lines)
    /\ j < map_pixels_across(args.width, args.height, args.n_addr_lines)
    /\ LET p == pixel_pair(args.width, args.n_addr_lines, args.serpentine,
                           i, j)
       IN  result' = result
                \o << Cb(args.cb, args.width, args.height, p[1], p[2]),
                      Cb(args.cb, args.width, args.height, p[1], p[3]) >>
    /\ j' = j + 1
    /\ UNCHANGED <<entry, args, pc, i, ret, err, geom>>
    /\ UNCHANGED svars

\* the inner loop ends: next row-select state
MatrixmapOuter ==
    /\ pc = "make_matrixmap"
    /\ i < half_panel_height(args.n_addr_lines)
    /\ j >= map_pixels_across(args.width, args.height, args.n_addr_lines)
    /\ i' = i + 1
    /\ j' = 0
    /\ UNCHANGED <<entry, args, pc, result, ret, err, geom>>
    /\ UNCHANGED svars

\* return result, to the client
MatrixmapReturn ==
    /\ pc = "make_matrixmap"
    /\ entry = "make_matrixmap"
    /\ i >= half_panel_height(args.n_addr_lines)
    /\ pc' = "done"
    /\ ret' = result
    /\ UNCHANGED <<entry, args, i, j, result, err, geom>>
    /\ UNCHANGED svars

CallMakeSimpleSchedule ==
    /\ pc = "idle"
    /\ \E n_planes \in (-1)..11, pixels_across \in 0..MaxPixelsAcross :
         /\ entry' = "make_simple_schedule"
         /\ args' = [n_planes |-> n_planes, pixels_across |-> pixels_across]
         /\ Finish(make_simple_schedule(n_planes, pixels_across))
    /\ UNCHANGED <<i, j, result, geom>>
    /\ UNCHANGED svars

CallMakeTemporalDitherSchedule ==
    /\ pc = "idle"
    /\ \E n_planes \in (-1)..11, pixels_across \in 0..MaxPixelsAcross,
          n_temporal_planes \in (-1)..MaxTemporal :
         /\ entry' = "make_temporal_dither_schedule"
         /\ args' = [n_planes |-> n_planes, pixels_across |-> pixels_across,
                     n_temporal_planes |-> n_temporal_planes]
         /\ Finish(make_temporal_dither_schedule(n_planes, pixels_across,
                                                 n_temporal_planes))
    /\ UNCHANGED <<i, j, result, geom>>
    /\ UNCHANGED svars

\* a constructor call ends: the object exists only if nothing was thrown
FinishGeometry(r) ==
    /\ pc' = IF r.thrown THEN "thrown" ELSE "done"
    /\ geom' = IF r.thrown THEN NoGeometry ELSE r.value
    /\ err' = r.what

\* matrix_geometry(pixels_across, n_addr_lines, n_planes, width, height,
\*                 serpentine, cb): make_matrixmap runs first
CallGeometryFromCallback ==
    /\ pc = "idle"
    /\ \E pixels_across \in 0..MaxGeomPixels, n_addr_lines \in 0..MaxAddrLines,
          n_planes \in 0..MaxGeomPlanes, width \in 0..MaxGeomWidth,
          height \in 0..MaxGeomHeight, serpentine \in BOOLEAN,
          cb \in Orientations :
         EnterMatrixmap("geometry_cb",
                        [pixels_across |-> pixels_across,
                         n_addr_lines |-> n_addr_lines,
                         n_planes |-> n_planes,
                         width |-> width, height |-> height,
                         serpentine |-> serpentine, cb |-> cb])
    /\ UNCHANGED svars

\* make_matrixmap returned: delegate with the built map and n_lanes = 2
\* (n_temporal_dither takes its default, 0)
GeometryMapBuilt ==
    /\ pc = "make_matrixmap"
    /\ entry = "geometry_cb"
    /\ i >= half_panel_height(args.n_addr_lines)
    /\ FinishGeometry(geometry_from_map(args.pixels_across, args.n_addr_lines,
                                        args.n_planes, args.width,
                                        args.height, result, 2, 0))
    /\ UNCHANGED <<entry, args, i, j, result, ret>>
    /\ UNCHANGED svars

\* maps a caller supplies: only the length is looked at by the constructors
SuppliedMaps == { [k \in 1..len |-> k - 1] : len \in 0..MaxMapLen }

\* schedule sequences a caller supplies
SuppliedSchedules ==
    { <<>>,
      << <<>> >>,
      << <<schedule_entry(0, 0)>> >>,
      make_simple_schedule(2, 0).value,
      make_temporal_dither_schedule(3, 0, 2).value }

CallGeometryFromMap ==
    /\ pc = "idle"
    /\ \E pixels_across \in 0..MaxGeomPixels, n_addr_lines \in 0..MaxAddrLines,
          n_planes \in 0..MaxGeomPlanes, width \in 0..MaxGeomWidth,
          height \in 0..MaxGeomHeight, map \in SuppliedMaps,
          n_lanes \in 0..MaxLanes, n_temporal_dither \in 0..MaxTemporal :
         /\ entry' = "geometry_map"
         /\ args' = [pixels_across |-> pixels_across,
                     n_addr_lines |-> n_addr_lines, n_planes |-> n_planes,
                     width |-> width, height |-> height, map |-> map,
                     n_lanes |-> n_lanes,
                     n_temporal_dither |-> n_temporal_dither]
         /\ FinishGeometry(geometry_from_map(pixels_across, n_addr_lines,
                                             n_planes, width, height, map,
                                             n_lanes, n_temporal_dither))
    /\ UNCHANGED <<i, j, result, ret>>
    /\ UNCHANGED svars

CallGeometryFromSchedules ==
    /\ pc = "idle"
    /\ \E pixels_across \in 0..MaxGeomPixels, n_addr_lines \in 0..MaxAddrLines,
          width \in 0..MaxGeomWidth, height \in 0..MaxGeomHeight,
          map \in SuppliedMaps, n_lanes \in 0..MaxLanes,
          schedules \in SuppliedSchedules :
         /\ entry' = "geometry_schedules"
         /\ args' = [pixels_across |-> pixels_across,
                     n_addr_lines |-> n_addr_lines,
                     width |-> width, height |-> height, map |-> map,
                     n_lanes |-> n_lanes, schedules |-> schedules]
         /\ FinishGeometry(geometry_from_schedules(pixels_across,
                                                   n_addr_lines, width,
                                                   height, map, n_lanes,
                                                   schedules))
    /\ UNCHANGED <<i, j, result, ret>>
    /\ UNCHANGED svars

Next ==
    \/ CallOrientation
    \/ CallCustomPanelOrientation
    \/ CallMakeMatrixmap
    \/ MatrixmapInner
    \/ MatrixmapOuter
    \/ MatrixmapReturn
    \/ CallMakeSimpleSchedule
    \/ CallMakeTemporalDitherSchedule
    \/ CallGeometryFromCallback
    \/ GeometryMapBuilt
    \/ CallGeometryFromMap
    \/ CallGeometryFromSchedules

Spec == Init /\ [][Next]_vars

\* ==== the ingest servers =======================================================
\* SimpleTcpServer ("tcp"): run() starts the render thread and the accept
\* thread, every accepted client gets a detached handle_client thread.
\* PiomatterWebSocketServer ("ws"): run() starts the render thread and then
\* runs the websocket loop, which calls on_message for one message at a time.

\* mutant: the queue is trimmed only above three frames
RECURSIVE trim_queue_late(_)
trim_queue_late(queue) ==
    IF Len(queue) > 3 THEN trim_queue_late(Tail(queue)) ELSE queue

\* while (frame_queue_.size() > 2) frame_queue_.pop();
RECURSIVE trim_queue(_)
trim_queue(queue) ==
    IF Len(queue) > 2 THEN trim_queue(Tail(queue)) ELSE queue

\* the predicate of frame_cv_.wait
wait_predicate == frame_queue_ # <<>> \/ interrupt_received

ServerInit ==
    /\ entry = "none"
    /\ args = <<>>
    /\ pc = "idle"
    /\ i = 0
    /\ j = 0
    /\ result = <<>>
    /\ ret = NoValue
    /\ err = NoError
    /\ geom = NoGeometry
    /\ server \in {"tcp", "ws"}
    /\ interrupt_received = FALSE
    /\ frame_mutex_ = "free"
    /\ frame_queue_ = <<>>
    /\ hpc = [c \in Clients |-> "unconnected"]
    /\ rpc = "unstarted"
    /\ apc = "unstarted"
    /\ mainpc = "start"
    /\ arrivals = 0
    /\ rendered = <<>>

\* InterruptHandler: SIGINT or SIGTERM is delivered
InterruptHandler ==
    /\ ~interrupt_received
    /\ interrupt_received' = TRUE
    /\ UNCHANGED <<server, frame_mutex_, frame_queue_, hpc, rpc, apc, mainpc,
                   arrivals, rendered>>
    /\ UNCHANGED gvars

\* SimpleTcpServer::run: start_server fails, run returns
StartServerFails ==
    /\ server = "tcp"
    /\ mainpc = "start"
    /\ mainpc' = "returned"
    /\ UNCHANGED <<server, interrupt_received, frame_mutex_, frame_queue_,
                   hpc, rpc, apc, arrivals, rendered>>
    /\ UNCHANGED gvars

\* SimpleTcpServer::run: both threads are started, then server_thread_.join()
TcpRunStart ==
    /\ server = "tcp"
    /\ mainpc = "start"
    /\ rpc' = "loop"
    /\ apc' = "loop"
    /\ mainpc' = "join_server"
    /\ UNCHANGED <<server, interrupt_received, frame_mutex_, frame_queue_,
                   hpc, arrivals, rendered>>
    /\ UNCHANGED gvars

\* server_thread_.join() returns, then render_thread_.join()
JoinServerThread ==
    /\ mainpc = "join_server"
    /\ apc = "exited"
    /\ mainpc' = "join_render"
    /\ UNCHANGED <<server, interrupt_received, frame_mutex_, frame_queue_,
                   hpc, rpc, apc, arrivals, rendered>>
    /\ UNCHANGED gvars

\* render_thread_.join() returns, the socket is closed and run returns
JoinRenderThread ==
    /\ mainpc = "join_render"
    /\ rpc = "exited"
    /\ mainpc' = "returned"
    /\ UNCHANGED <<server, interrupt_received, frame_mutex_, frame_queue_,
                   hpc, rpc, apc, arrivals, rendered>>
    /\ UNCHANGED gvars

\* PiomatterWebSocketServer::run: the render thread is started and
\* ws_server_.run() begins to dispatch messages; nothing in the program calls
\* stop(), so the loop is never left
WsRunStart ==
    /\ server = "ws"
    /\ mainpc = "start"
    /\ rpc' = "loop"
    /\ mainpc' = "io_run"
    /\ hpc' = [hpc EXCEPT ![1] = "recv"]
    /\ UNCHANGED <<server, interrupt_received, frame_mutex_, frame_queue_,
                   apc, arrivals, rendered>>
    /\ UNCHANGED gvars

\* accept_clients: while (!interrupt_received) is left
AcceptExit ==
    /\ apc = "loop"
    /\ interrupt_received
    /\ apc' = "exited"
    /\ UNCHANGED <<server, interrupt_received, frame_mutex_, frame_queue_,
                   hpc, rpc, mainpc, arrivals, rendered>>
    /\ UNCHANGED gvars

\* accept_clients: select fails (activity < 0), break
AcceptSelectError ==
    /\ apc = "loop"
    /\ apc' = "exited"
    /\ UNCHANGED <<server, interrupt_received, frame_mutex_, frame_queue_,
                   hpc, rpc, mainpc, arrivals, rendered>>
    /\ UNCHANGED gvars

\* accept_clients: a connection is accepted and its handle_client thread
\* is detached
AcceptClient(c) ==
    /\ apc = "loop"
    /\ ~interrupt_received
    /\ hpc[c] = "unconnected"
    /\ hpc' = [hpc EXCEPT ![c] = "loop"]
    /\ UNCHANGED <<server, interrupt_received, frame_mutex_, frame_queue_,
                   rpc, apc, mainpc, arrivals, rendered>>
    /\ UNCHANGED gvars

\* handle_client: while (!interrupt_received), then recv blocks
HandlerLoop(c) ==
    /\ server = "tcp"
    /\ hpc[c] = "loop"
    /\ hpc' = [hpc EXCEPT ![c] = IF interrupt_received THEN "closed"
                                 ELSE "recv"]
    /\ UNCHANGED <<server, interrupt_received, frame_mutex_, frame_queue_,
                   rpc, apc, mainpc, arrivals, rendered>>
    /\ UNCHANGED gvars

\* recv returns <= 0: the client is gone
ClientDisconnects(c) ==
    /\ server = "tcp"
    /\ hpc[c] = "recv"
    /\ hpc' = [hpc EXCEPT ![c] = "closed"]
    /\ UNCHANGED <<server, interrupt_received, frame_mutex_, frame_queue_,
                   rpc, apc, mainpc, arrivals, rendered>>
    /\ UNCHANGED gvars

\* a packet that is not width * height * 3 bytes long: a command or partial
\* data (tcp: continue), a command or an invalid frame size (ws: return)
OtherPacket(c) ==
    /\ hpc[c] = "recv"
    /\ hpc' = [hpc EXCEPT ![c] = IF server = "tcp" THEN "loop" ELSE "recv"]
    /\ UNCHANGED <<server, interrupt_received, frame_mutex_, frame_queue_,
                   rpc, apc, mainpc, arrivals, rendered>>
    /\ UNCHANGED gvars

\* a buffer of exactly width * height * 3 bytes is received: frame_data is
\* built and the handler goes for the frame mutex
FrameReceived(c) ==
    /\ hpc[c] = "recv"
    /\ arrivals + Cardinality({d \in Clients : hpc[d] \in {"lock", "enqueue"}})
          < MaxFrames
    /\ hpc' = [hpc EXCEPT ![c] = "lock"]
    /\ UNCHANGED <<server, interrupt_received, frame_mutex_, frame_queue_,
                   rpc, apc, mainpc, arrivals, rendered>>
    /\ UNCHANGED gvars

\* std::lock_guard<std::mutex> lock(frame_mutex_)
HandlerLock(c) ==
    /\ hpc[c] = "lock"
    /\ frame_mutex_ = "free"
    /\ frame_mutex_' = "handler"
    /\ hpc' = [hpc EXCEPT ![c] = "enqueue"]
    /\ UNCHANGED <<server, interrupt_received, frame_queue_, rpc, apc, mainpc,
                   arrivals, rendered>>
    /\ UNCHANGED gvars

\* the queue is trimmed, the frame is pushed and the lock guard is released;
\* a frame is named by its arrival number
HandlerEnqueue(c) ==
    /\ hpc[c] = "enqueue"
    /\ arrivals' = arrivals + 1
    /\ frame_queue_' = Append(trim_queue(frame_queue_), arrivals + 1)
    /\ frame_mutex_' = "free"
    /\ hpc' = [hpc EXCEPT ![c] = "notify"]
    /\ UNCHANGED <<server, interrupt_received, rpc, apc, mainpc, rendered>>
    /\ UNCHANGED gvars

\* frame_cv_.notify_one(): a render thread blocked in wait is woken
HandlerNotify(c) ==
    /\ hpc[c] = "notify"
    /\ rpc' = IF rpc = "blocked" THEN "woken" ELSE rpc
    /\ hpc' = [hpc EXCEPT ![c] = IF server = "tcp" THEN "loop" ELSE "recv"]
    /\ UNCHANGED <<server, interrupt_received, frame_mutex_, frame_queue_,
                   apc, mainpc, arrivals, rendered>>
    /\ UNCHANGED gvars

\* render_frames: while (!interrupt_received)
RenderLoop ==
    /\ rpc = "loop"
    /\ rpc' = IF interrupt_received THEN "exited" ELSE "lock"
    /\ UNCHANGED <<server, interrupt_received, frame_mutex_, frame_queue_,
                   hpc, apc, mainpc, arrivals, rendered>>
    /\ UNCHANGED gvars

\* std::unique_lock<std::mutex> lock(frame_mutex_), and the re-lock of a
\* woken wait
RenderLock ==
    /\ rpc \in {"lock", "woken"}
    /\ frame_mutex_ = "free"
    /\ frame_mutex_' = "render"
    /\ rpc' = "wait"
    /\ UNCHANGED <<server, interrupt_received, frame_queue_, hpc, apc, mainpc,
                   arrivals, rendered>>
    /\ UNCHANGED gvars

\* frame_cv_.wait(lock, predicate): the predicate is tested; if it is false
\* the mutex is released and the thread blocks until it is notified
RenderWait ==
    /\ rpc = "wait"
    /\ IF wait_predicate
       THEN /\ rpc' = "check"
            /\ UNCHANGED frame_mutex_
       ELSE /\ rpc' = "blocked"
            /\ frame_mutex_' = "free"
    /\ UNCHANGED <<server, interrupt_received, frame_queue_, hpc, apc, mainpc,
                   arrivals, rendered>>
    /\ UNCHANGED gvars

\* if (interrupt_received) break; the lock is released on the way out
RenderBreak ==
    /\ rpc = "check"
    /\ interrupt_received
    /\ rpc' = "exited"
    /\ frame_mutex_' = "free"
    /\ UNCHANGED <<server, interrupt_received, frame_queue_, hpc, apc, mainpc,
                   arrivals, rendered>>
    /\ UNCHANGED gvars

\* frame_data = front(); pop(); lock.unlock()
RenderTake ==
    /\ rpc = "check"
    /\ ~interrupt_received
    /\ rendered' = Append(rendered, Head(frame_queue_))
    /\ frame_queue_' = Tail(frame_queue_)
    /\ frame_mutex_' = "free"
    /\ rpc' = "convert"
    /\ UNCHANGED <<server, interrupt_received, hpc, apc, mainpc, arrivals>>
    /\ UNCHANGED gvars

\* the frame is packed into framebuffer_ and matrix_->show() is called
RenderShow ==
    /\ rpc = "convert"
    /\ rpc' = "loop"
    /\ UNCHANGED <<server, interrupt_received, frame_mutex_, frame_queue_,
                   hpc, apc, mainpc, arrivals, rendered>>
    /\ UNCHANGED gvars

\* the steps the threads take by themselves
ThreadStep ==
    \/ TcpRunStart
    \/ WsRunStart
    \/ JoinServerThread
    \/ JoinRenderThread
    \/ AcceptExit
    \/ \E c \in Clients : HandlerLoop(c)
    \/ \E c \in Clients : HandlerLock(c)
    \/ \E c \in Clients : HandlerEnqueue(c)
    \/ \E c \in Clients : HandlerNotify(c)
    \/ RenderLoop
    \/ RenderLock
    \/ RenderWait
    \/ RenderBreak
    \/ RenderTake
    \/ RenderShow

\* what the signal, the network and the clients do
EnvironmentStep ==
    \/ InterruptHandler
    \/ StartServerFails
    \/ AcceptSelectError
    \/ \E c \in Clients : AcceptClient(c)
    \/ \E c \in Clients : ClientDisconnects(c)
    \/ \E c \in Clients : OtherPacket(c)
    \/ \E c \in Clients : FrameReceived(c)

ServerNext == ThreadStep \/ EnvironmentStep

ServerSpec == ServerInit /\ [][ServerNext]_vars

\* every thread that can take a step eventually takes one
ServerFairSpec ==
    /\ ServerSpec
    /\ WF_vars(TcpRunStart \/ WsRunStart \/ JoinServerThread
                  \/ JoinRenderThread)
    /\ WF_vars(AcceptExit)
    /\ \A c \in Clients :
         WF_vars(HandlerLoop(c) \/ HandlerLock(c) \/ HandlerEnqueue(c)
                    \/ HandlerNotify(c))
    /\ WF_vars(RenderLoop \/ RenderLock \/ RenderWait \/ RenderBreak
                  \/ RenderTake \/ RenderShow)

\* ==== properties ==============================================================

\* what the map builder was asked for, in the words of the claims
AddressLines == args.n_addr_lines
PanelRows == 2 * 2^AddressLines
PixelsAcross == args.width * (args.height \div PanelRows)
MapCallReturned == entry = "make_matrixmap" /\ pc = "done"

\* C1: whenever height is a multiple of 2 * 2^addressLines, make_matrixmap
\* raises no error, for either serpentine value and every orientation, and
\* the map it returns has exactly pixelsAcross * 2 * 2^addressLines entries.
C1_MapLength ==
    (entry = "make_matrixmap" /\ args.height % PanelRows = 0)
        => /\ pc # "thrown"
           /\ err = NoError
           /\ pc = "done" => Len(ret) = PixelsAcross * 2 * 2^AddressLines

C1_Witness ==
    /\ MapCallReturned
    /\ args.serpentine
    /\ args.width = 3 /\ args.height = 8 /\ args.n_addr_lines = 1
    /\ Len(ret) = 24

\* C2: in the returned map, the entries at (0-based) indices
\* 2 * (i * pixelsAcross + j) and that plus one are transform(x, y0) and
\* transform(x, y1): on an even panel, or with serpentine off,
\* x = j mod width, y0 = panelIndex * panelHeight + i and
\* y1 = y0 + halfPanelHeight; on an odd panel with serpentine on,
\* x = width - (j mod width) - 1, y0 = (panelIndex + 1) * panelHeight - i - 1
\* and y1 = y0 - halfPanelHeight.
C2_MapEntries ==
    MapCallReturned =>
        \A ii \in 0..(2^AddressLines - 1), jj \in 0..(PixelsAcross - 1) :
            LET slot == 2 * (ii * PixelsAcross + jj)
                panelIndex == jj \div args.width
                mirrored == args.serpentine /\ panelIndex % 2 = 1
                x == IF mirrored THEN args.width - (jj % args.width) - 1
                     ELSE jj % args.width
                y0 == IF mirrored THEN (panelIndex + 1) * PanelRows - ii - 1
                      ELSE panelIndex * PanelRows + ii
                y1 == IF mirrored THEN y0 - 2^AddressLines
                      ELSE y0 + 2^AddressLines
            IN  /\ slot + 2 <= Len(ret)
                /\ ret[slot + 1] = Cb(args.cb, args.width, args.height, x, y0)
                /\ ret[slot + 2] = Cb(args.cb, args.width, args.height, x, y1)

\* an odd panel under serpentine: row-select 0, column 2 of a 2x4 canvas
C2_Witness ==
    /\ MapCallReturned
    /\ args.serpentine /\ args.cb = "r180"
    /\ args.width = 2 /\ args.height = 4 /\ args.n_addr_lines = 0
    /\ ret[5] = 0 /\ ret[6] = 2

\* numbers of doublings the scaling loops can need within the model's bounds
Doublings == { k \in 0..20 : k = 0 \/ 2^k < 2 * MaxPixelsAcross }

\* C6: make_simple_schedule with planeCount in 1..10 returns one schedule of
\* planeCount entries, entry i being (10 - i, maxCount >> i) with maxCount
\* the smallest 2^planeCount * 2^k that is >= pixelsAcross; adjacent dwells
\* halve exactly; (5, 192) gives (10,256),(9,128),(8,64),(7,32),(6,16).
C6_SimpleSchedule ==
    (entry = "make_simple_schedule" /\ args.n_planes \in 1..10)
        => /\ pc = "done"
           /\ Len(ret) = 1
           /\ Len(ret[1]) = args.n_planes
           /\ \E k \in Doublings :
                LET maxCount == 2^args.n_planes * 2^k
                IN  /\ maxCount >= args.pixels_across
                    /\ k > 0 => maxCount \div 2 < args.pixels_across
                    /\ \A n \in 0..(args.n_planes - 1) :
                         /\ ret[1][n + 1].shift = 10 - n
                         /\ ret[1][n + 1].active_time = maxCount \div 2^n
           /\ \A n \in 1..(args.n_planes - 1) :
                2 * ret[1][n + 1].active_time = ret[1][n].active_time
           /\ (args.n_planes = 5 /\ args.pixels_across = 192)
                => ret = << << [shift |-> 10, active_time |-> 256],
                               [shift |-> 9, active_time |-> 128],
                               [shift |-> 8, active_time |-> 64],
                               [shift |-> 7, active_time |-> 32],
                               [shift |-> 6, active_time |-> 16] >> >>

C6_Witness ==
    /\ entry = "make_simple_schedule" /\ pc = "done"
    /\ args.n_planes = 5 /\ args.pixels_across = 192
    /\ ret[1][1].active_time = 256

ValidDither ==
    /\ args.n_planes \in 1..10
    /\ args.n_temporal_planes \in {2, 4}
    /\ args.n_temporal_planes < args.n_planes

\* C7: a valid temporal-dither call (t in {2,4}, t < planeCount) returns t
\* schedules of realPlaneCount + 1 entries; the first realPlaneCount entries
\* are (10 - j, maxCount >> j) in every schedule, maxCount being
\* 2 * 2^realPlaneCount doubled until >= pixelsAcross and temporalCount being
\* 1 doubled as often; schedule i ends with
\* (10 - (realPlaneCount + i), temporalCount << i).
C7_TemporalSchedules ==
    (entry = "make_temporal_dither_schedule" /\ ValidDither)
        => /\ pc = "done"
           /\ Len(ret) = args.n_temporal_planes
           /\ \E k \in Doublings :
                LET realPlaneCount == args.n_planes - args.n_temporal_planes
                    maxCount == 2 * 2^realPlaneCount * 2^k
                    temporalCount == 2^k
                IN  /\ maxCount >= args.pixels_across
                    /\ k > 0 => maxCount \div 2 < args.pixels_across
                    /\ \A s \in 0..(args.n_temporal_planes - 1) :
                         /\ Len(ret[s + 1]) = realPlaneCount + 1
                         /\ \A n \in 0..(realPlaneCount - 1) :
                              /\ ret[s + 1][n + 1] = ret[1][n + 1]
                              /\ ret[s + 1][n + 1].shift = 10 - n
                              /\ ret[s + 1][n + 1].active_time
                                    = maxCount \div 2^n
                         /\ ret[s + 1][realPlaneCount + 1].shift
                               = 10 - (realPlaneCount + s)
                         /\ ret[s + 1][realPlaneCount + 1].active_time
                               = temporalCount * 2^s

\* 4 temporal planes of 7, scaled twice: maxCount 64, temporalCount 4
C7_Witness ==
    /\ entry = "make_temporal_dither_schedule" /\ pc = "done"
    /\ args.n_planes = 7 /\ args.n_temporal_planes = 4
    /\ args.pixels_across = 64
    /\ ret[4][4] = [shift |-> 4, active_time |-> 32]

\* C8: make_simple_schedule throws iff planeCount is outside 1..10;
\* make_temporal_dither_schedule throws iff planeCount is outside 1..10, or
\* temporalPlaneCount is not in {0,2,4}, or temporalPlaneCount is non-zero
\* and >= planeCount; a call that throws returns no schedule, every other
\* call returns one.
C8_ScheduleErrors ==
    /\ entry = "make_simple_schedule"
         => /\ pc \in {"done", "thrown"}
            /\ pc = "thrown" <=> args.n_planes \notin 1..10
    /\ entry = "make_temporal_dither_schedule"
         => /\ pc \in {"done", "thrown"}
            /\ pc = "thrown" <=>
                  \/ args.n_planes \notin 1..10
                  \/ args.n_temporal_planes \notin {0, 2, 4}
                  \/ /\ args.n_temporal_planes # 0
                     /\ args.n_temporal_planes >= args.n_planes
    /\ entry \in {"make_simple_schedule", "make_temporal_dither_schedule"}
         => /\ pc = "thrown" => ret = NoValue
                                   /\ err \in {PlanesError, TemporalError}
            /\ pc = "done" => Len(ret) >= 1 /\ err = NoError

\* the largest temporal count that is still rejected for being >= planeCount
C8_Witness ==
    /\ entry = "make_temporal_dither_schedule" /\ pc = "thrown"
    /\ args.n_planes = 4 /\ args.n_temporal_planes = 4
    /\ err = TemporalError

\* C9: when height is not a multiple of 2 * 2^addressLines, make_matrixmap
\* throws the range error before any entry is produced: no map is returned,
\* and the constructor that builds its map constructs no geometry.
C9_HeightRejected ==
    (entry \in {"make_matrixmap", "geometry_cb"}
        /\ args.height % PanelRows # 0)
        => /\ pc = "thrown"
           /\ err = HeightError
           /\ result = <<>>
           /\ ret = NoValue
           /\ geom = NoGeometry

C9_Witness ==
    /\ entry = "geometry_cb" /\ pc = "thrown"
    /\ args.height = 3 /\ args.n_addr_lines = 0 /\ args.width = 2
    /\ err = HeightError

\* C10: the constructor taking a map and a schedule sequence throws iff
\* map.length # (lanes << addressLines) * pixelsAcross, whatever the width,
\* the height or the schedule sequence; when it does not throw, every field
\* of the geometry is the argument passed in.
C10_GeometryValidation ==
    entry = "geometry_schedules"
        => /\ pc \in {"done", "thrown"}
           /\ pc = "thrown" <=>
                 Len(args.map)
                    # (args.n_lanes * 2^args.n_addr_lines) * args.pixels_across
           /\ pc = "thrown" => geom = NoGeometry /\ err = MapSizeError
           /\ pc = "done" =>
                 /\ geom.pixels_across = args.pixels_across
                 /\ geom.n_addr_lines = args.n_addr_lines
                 /\ geom.n_lanes = args.n_lanes
                 /\ geom.width = args.width
                 /\ geom.height = args.height
                 /\ geom.map = args.map
                 /\ geom.schedules = args.schedules

\* constructed although the height is no multiple of the panel height and
\* the schedule sequence is empty
C10_Witness ==
    /\ entry = "geometry_schedules" /\ pc = "done"
    /\ args.height = 3 /\ args.n_addr_lines = 1 /\ args.n_lanes = 2
    /\ args.pixels_across = 2 /\ Len(args.map) = 8
    /\ args.schedules = <<>>

\* C3 (as claimed): a geometry constructed from planeCount, pixelsAcross and
\* a temporal-dither count, with a map of consistent length and counts the
\* schedule generator accepts, holds the schedule sequence
\* make_temporal_dither_schedule(planeCount, pixelsAcross, temporalCount):
\* the simple schedule, of length 1, when the count is 0, and
\* temporalCount schedules otherwise.
C3_GeometrySchedules ==
    (/\ entry = "geometry_map"
     /\ Len(args.map)
           = (args.n_lanes * 2^args.n_addr_lines) * args.pixels_across
     /\ args.n_planes \in 1..10
     /\ args.n_temporal_dither \in {0, 2, 4}
     /\ args.n_temporal_dither = 0 \/ args.n_temporal_dither < args.n_planes)
        => /\ pc = "done"
           /\ geom.schedules
                 = make_temporal_dither_schedule(args.n_planes,
                                                 args.pixels_across,
                                                 args.n_temporal_dither).value
           /\ args.n_temporal_dither = 0
                 => /\ Len(geom.schedules) = 1
                    /\ geom.schedules
                          = make_simple_schedule(args.n_planes,
                                                 args.pixels_across).value
           /\ args.n_temporal_dither # 0
                 => Len(geom.schedules) = args.n_temporal_dither

\* dwell given to the bit at one shift by one schedule
RECURSIVE ScheduleDwell(_, _)
ScheduleDwell(sched, shift) ==
    IF sched = <<>> THEN 0
    ELSE (IF Head(sched).shift = shift THEN Head(sched).active_time ELSE 0)
            + ScheduleDwell(Tail(sched), shift)

\* dwell given to the bit at one shift over one round-robin cycle of the
\* sequence: the per-frame average times the number of schedules
RECURSIVE CycleDwell(_, _)
CycleDwell(sequence, shift) ==
    IF sequence = <<>> THEN 0
    ELSE ScheduleDwell(Head(sequence), shift)
            + CycleDwell(Tail(sequence), shift)

ShiftsOf(sequence) ==
    { sequence[s][n].shift :
        s \in 1..Len(sequence), n \in 1..(IF Len(sequence) = 0 THEN 0
                                           ELSE Len(sequence[1])) }

\* C4 (as claimed): for a valid temporal-dither configuration, over one
\* round-robin cycle the bit at shift s dwells exactly half as long as the
\* bit at shift s + 1, for all adjacent shifts of the sequence.
C4_AverageBinaryWeight ==
    (entry = "make_temporal_dither_schedule" /\ ValidDither /\ pc = "done")
        => \A s \in ShiftsOf(ret) :
              (s + 1) \in ShiftsOf(ret)
                 => 2 * CycleDwell(ret, s) = CycleDwell(ret, s + 1)

\* C5 (as claimed): each of the four fixed orientation transforms maps every
\* in-bounds coordinate of a width x height canvas to an offset in
\* 0 .. width * height - 1.
C5_OffsetInCanvas ==
    (entry = "orientation" /\ args.cb \in FixedOrientations)
        => /\ pc = "done"
           /\ 0 <= ret
           /\ ret < args.width * args.height

\* the general part of C11: the offset is newX + 192 * y with
\* newX = (2 - x div 64) * 64 + x mod 64 for y < 32 and newX = x for
\* y >= 32; the row and the column within the panel are kept; the mapping is
\* a bijection of the canvas onto 0 .. 12287 (it is undone by the same panel
\* reversal, and every offset has a preimage).
CustomPanelMapping ==
    /\ pc = "done"
    /\ LET newX == IF args.y < 32
                   THEN (2 - args.x \div 64) * 64 + (args.x % 64)
                   ELSE args.x
       IN  ret = newX + 192 * args.y
    /\ 0 <= ret /\ ret < 12288
    /\ ret \div 192 = args.y
    /\ (ret % 192) % 64 = args.x % 64
    /\ LET column == ret % 192
           row == ret \div 192
           back == IF row < 32
                   THEN (2 - column \div 64) * 64 + (column % 64)
                   ELSE column
       IN  back = args.x /\ row = args.y
    /\ LET target == args.x + 192 * args.y
           fromX == IF args.y < 32
                    THEN (2 - args.x \div 64) * 64 + (args.x % 64)
                    ELSE args.x
       IN  custom_panel_orientation(192, 64, fromX, args.y) = target

\* C11 (as claimed): on the 192 x 64 canvas custom_panel_orientation maps
\* (x, y) to newX + 192 * y with the top panel row reversed, a bijection
\* onto 0 .. 12287, so that (10,10) -> 2090 and (10,40) -> 7690.
C11_AsClaimed ==
    entry = "custom_panel_orientation"
        => /\ CustomPanelMapping
           /\ (args.x = 10 /\ args.y = 10) => ret = 2090
           /\ (args.x = 10 /\ args.y = 40) => ret = 7690

\* C11 (amended): the same mapping and bijection, with
\* (10,10) -> 138 + 192 * 10 = 2058 and (10,40) -> 7690.
C11_CustomPanelOffsets ==
    entry = "custom_panel_orientation"
        => /\ CustomPanelMapping
           /\ (args.x = 10 /\ args.y = 10) => ret = 2058
           /\ (args.x = 10 /\ args.y = 40) => ret = 7690

C11_Witness ==
    /\ entry = "custom_panel_orientation" /\ pc = "done"
    /\ args.x = 10 /\ args.y = 10
    /\ ret = 2058

\* C12: for a valid configuration, either serpentine value and the
\* orientations normal, rotate-180 and rotate-CCW, the map make_matrixmap
\* returns is a permutation of 0 .. width * height - 1: every offset occurs
\* at exactly one scan slot.
C12_MapIsPermutation ==
    (MapCallReturned /\ args.cb \in {"normal", "r180", "ccw"})
        => /\ Len(ret) = args.width * args.height
           /\ \A offset \in 0..(args.width * args.height - 1) :
                Cardinality({ k \in 1..Len(ret) : ret[k] = offset }) = 1

C12_Witness ==
    /\ MapCallReturned
    /\ args.serpentine /\ args.cb = "ccw"
    /\ args.width = 3 /\ args.height = 8 /\ args.n_addr_lines = 1
    /\ Len(ret) = 24

\* the frames that were not discarded, oldest first: those the render thread
\* has taken, then those still queued
Survivors == rendered \o frame_queue_

\* C13, in every state: the queue holds at most 3 frames; the surviving
\* frames are in arrival order, taken and queued alike; the newest frame
\* is among them.  A frame arrives when its handler puts it to the queue.
C13_QueueInvariant ==
    /\ Len(frame_queue_) <= 3
    /\ \A m, n \in 1..Len(Survivors) : m < n => Survivors[m] < Survivors[n]
    /\ arrivals > 0 => /\ Survivors # <<>>
                       /\ Survivors[Len(Survivors)] = arrivals

\* C13, in every step: an arriving frame is appended, after the oldest
\* frame was discarded if the queue held 3; the render thread takes the
\* oldest queued frame.
C13_QueueStep ==
    /\ arrivals' # arrivals
          => /\ arrivals' = arrivals + 1
             /\ frame_queue_' = IF Len(frame_queue_) = 3
                                THEN Append(Tail(frame_queue_), arrivals')
                                ELSE Append(frame_queue_, arrivals')
    /\ rendered' # rendered
          => /\ frame_queue_ # <<>>
             /\ rendered' = Append(rendered, Head(frame_queue_))
             /\ frame_queue_' = Tail(frame_queue_)
    /\ frame_queue_' # frame_queue_
          => arrivals' # arrivals \/ rendered' # rendered

\* C13: in both servers, under every interleaving of the handlers and the
\* render thread, the frame queue never holds more than 3 frames; a frame
\* arriving at a queue of 3 discards the oldest and is itself always
\* enqueued; the render thread consumes the surviving frames in arrival
\* order.
C13_FrameQueue == []C13_QueueInvariant /\ [][C13_QueueStep]_vars

\* frame 1 was rendered, frame 2 was discarded when frame 5 arrived
C13_Witness ==
    /\ server = "tcp"
    /\ rendered = <<1>>
    /\ frame_queue_ = <<3, 4, 5>>

\* C14 (as claimed): once interrupt_received is set, the render thread
\* eventually leaves render_frames and run() eventually returns, also when
\* the queue is empty and no frame arrives any more.
C14_ShutdownTerminates ==
    interrupt_received
        ~> (mainpc = "returned" /\ rpc \in {"unstarted", "exited"})

====
